---- MODULE Spec2Model ----
(***************************************************************************)
(* Model of src/app.py: the score aggregation function                     *)
(* calculate_final_score and the batch loop that calls it, builds the      *)
(* result rows and sorts them by seat number.                              *)
(*                                                                         *)
(* Python values are records [t, v] with v always a sequence of integers:  *)
(*   t = "int"   v = <<n>>            a non-negative int                   *)
(*   t = "float" v = bits             a non-negative finite float          *)
(*   t = "str"   v = code points      a str                                *)
(*   t = "none"  v = <<>>             None                                 *)
(* A float (IEEE-754 binary64) is a fixed-point number whose significant   *)
(* bits span at most MantBits places from its leading one.  Every float    *)
(* operation is the exact operation followed by RoundToDouble, as the      *)
(* hardware does it.  The numbers of the model are finite, non-negative,   *)
(* below Base, and no smaller than 2^-7 unless zero, so that every float   *)
(* met lies on the fixed-point grid; NaN, infinities and magnitudes beyond *)
(* the Decimal context's 28 digits are outside it.                         *)
(***************************************************************************)
EXTENDS Integers, Sequences, FiniteSets, TLC

\* ---------------------------------------------------------------- bounds
MaxLen == 3
MaxTopN == 2
MaxScore == 1
MaxFiles == 3
LimbBits == 12
NumLimbs == 6

\* ------------------------------------------------------- program constants
MantBits == 53

RECURSIVE TwoTo(_)
TwoTo(n) == IF n = 0 THEN 1 ELSE 2 * TwoTo(n - 1)
Pow2Table == [n \in 0..LimbBits |-> TwoTo(n)]
Pow2(n) == Pow2Table[n]

\* --------------------------------------------------------- binary64 layer
\* A fixed-point value is a sequence of NumLimbs limbs in base Base, most
\* significant first: limb 1 is the integer part, the others the fraction.
Base == Pow2(LimbBits)
NumBits == LimbBits * NumLimbs

\* the function f on 1..n as a sequence
AsSeq(f) == <<>> \o f

ZeroBits == AsSeq([i \in 1..NumLimbs |-> 0])

IntToBits(n) == AsSeq([i \in 1..NumLimbs |-> IF i = 1 THEN n ELSE 0])

\* floor of a fixed-point value
IntPart(v) == v[1]

\* the bit of weight 1/2
HalfBit(v) == v[2] \div (Base \div 2)

\* bits are numbered 1..NumBits from the most significant one
LimbOf(g) == ((g - 1) \div LimbBits) + 1
ShiftOf(g) == LimbBits - 1 - ((g - 1) % LimbBits)
BitAt(v, g) == (v[LimbOf(g)] \div Pow2(ShiftOf(g))) % 2

LeadingOne(v) ==
    IF \E i \in 1..NumLimbs : v[i] # 0
    THEN LET p == CHOOSE i \in 1..NumLimbs : v[i] # 0 /\ \A j \in 1..(i - 1) : v[j] = 0
             h == CHOOSE n \in 1..LimbBits : Pow2(n - 1) <= v[p] /\ v[p] < Pow2(n)
         IN  LimbBits * (p - 1) + (LimbBits - h) + 1
    ELSE 0

\* v with every bit after bit g cleared
Truncate(v, g) ==
    AsSeq([i \in 1..NumLimbs |->
             IF i < LimbOf(g) THEN v[i]
             ELSE IF i = LimbOf(g) THEN v[i] - (v[i] % Pow2(ShiftOf(g)))
             ELSE 0])

\* TRUE iff some bit after bit g is set
TailNonZero(v, g) ==
    \/ v[LimbOf(g)] % Pow2(ShiftOf(g)) # 0
    \/ \E i \in (LimbOf(g) + 1)..NumLimbs : v[i] # 0

\* exact sum of two fixed-point values (limb-wise, carries propagated)
AddExact(a, b) ==
    LET carry(i) == \E j \in (i + 1)..NumLimbs :
                        /\ a[j] + b[j] >= Base
                        /\ \A k \in (i + 1)..(j - 1) : a[k] + b[k] = Base - 1
    IN  AsSeq([i \in 1..NumLimbs |->
                 (a[i] + b[i] + (IF carry(i) THEN 1 ELSE 0)) % Base])

\* the value with only bit g set
UnitAt(g) ==
    AsSeq([i \in 1..NumLimbs |-> IF i = LimbOf(g) THEN Pow2(ShiftOf(g)) ELSE 0])

\* round an exact value (v plus a non-zero tail below the grid when sticky)
\* to MantBits significant bits, ties to even
RoundToDouble(v, sticky) ==
    LET p    == LeadingOne(v)
        last == p + MantBits - 1
    IN  IF p = 0 \/ last >= NumBits THEN v
        ELSE LET rb    == BitAt(v, last + 1)
                 st    == sticky \/ TailNonZero(v, last + 1)
                 trunc == Truncate(v, last)
             IN  IF rb = 1 /\ (st \/ BitAt(v, last) = 1)
                 THEN AddExact(trunc, UnitAt(last))
                 ELSE trunc

\* long division of the limbs 1..i of a by k: quotient limbs q, remainder r
RECURSIVE DivUpTo(_, _, _)
DivUpTo(a, k, i) ==
    IF i = 0 THEN [r |-> 0, q |-> <<>>]
    ELSE LET p == DivUpTo(a, k, i - 1)
             t == p.r * Base + a[i]
         IN  [r |-> t % k, q |-> Append(p.q, t \div k)]

\* exact quotient of a fixed-point value by a positive integer, truncated to
\* the grid, with the remainder
DivExact(a, k) == DivUpTo(a, k, NumLimbs)

\* float + float
FloatAdd(a, b) == RoundToDouble(AddExact(a, b), FALSE)

\* float / float(k) for a positive int k
FloatDivInt(a, k) ==
    LET d == DivExact(a, k) IN RoundToDouble(d.q, d.r # 0)

\* the float nearest to the decimal literal n/d (a JSON or Python literal)
FloatLit(n, d) == FloatDivInt(IntToBits(n), d)

\* a <= b on fixed-point values
FloatLeq(a, b) ==
    a = b \/ \E i \in 1..NumLimbs : a[i] < b[i] /\ \A j \in 1..(i - 1) : a[j] = b[j]

\* ------------------------------------------------------------ Python values
PyInt(n)   == [t |-> "int",   v |-> <<n>>]
PyFloat(f) == [t |-> "float", v |-> f]
PyStr(cs)  == [t |-> "str",   v |-> cs]
PyNone     == [t |-> "none",  v |-> <<>>]

\* str.isdigit() is true of the characters of Numeric_Type Digit or Decimal:
\* the ASCII digits and, among others, the superscripts U+00B2, U+00B3, U+00B9
DecimalChars == 48..57
DigitChars == DecimalChars \cup {178, 179, 185}

RECURSIVE DecimalStr(_)
DecimalStr(n) ==
    IF n < 10 THEN <<48 + n>> ELSE Append(DecimalStr(n \div 10), 48 + (n % 10))

\* str(s); of the repr of a float only the integer digits and the point are
\* rendered, enough for isdigit() to be false of it
StrOf(s) ==
    CASE s.t = "str"   -> s.v
      [] s.t = "int"   -> DecimalStr(s.v[1])
      [] s.t = "float" -> Append(DecimalStr(IntPart(s.v)), 46)
      [] s.t = "none"  -> <<78, 111, 110, 101>>

\* str.isalnum() in the place of str.isdigit()
IsDigitAlnum(cs) ==
    cs # <<>> /\ \A i \in 1..Len(cs) : cs[i] \in DigitChars \cup (65..90) \cup (97..122)

\* str.isdigit(): non-empty and every character a digit
IsDigit(cs) == cs # <<>> /\ \A i \in 1..Len(cs) : cs[i] \in DigitChars

\* isinstance(s, (int, float))
IsNumber(s) == s.t \in {"int", "float"}

\* the condition without its isinstance test
IsValidDigitOnly(s) == IsDigit(StrOf(s))

\* the condition of the comprehension of line 65
IsValid(s) == IsDigit(StrOf(s)) \/ IsNumber(s)

RECURSIVE DecimalValue(_)
DecimalValue(cs) ==
    IF cs = <<>> THEN 0
    ELSE 10 * DecimalValue(SubSeq(cs, 1, Len(cs) - 1)) + (cs[Len(cs)] - 48)

\* float(s): [ok, v]; a str is parsed as a decimal literal, and one with a
\* character that is no decimal digit raises ValueError
ToFloat(s) ==
    CASE s.t = "int"   -> [ok |-> TRUE, v |-> IntToBits(s.v[1])]
      [] s.t = "float" -> [ok |-> TRUE, v |-> s.v]
      [] s.t = "str"   ->
            IF s.v # <<>> /\ \A i \in 1..Len(s.v) : s.v[i] \in DecimalChars
            THEN [ok |-> TRUE, v |-> IntToBits(DecimalValue(s.v))]
            ELSE [ok |-> FALSE, v |-> ZeroBits]
      [] s.t = "none"  -> [ok |-> FALSE, v |-> ZeroBits]

\* ---------------------------------------------------- calculate_final_score
Returned(n) == [kind |-> "return", v |-> n]
Raised(e)   == [kind |-> e, v |-> 0]
NoResult    == [kind |-> "none", v |-> 0]

\* the elements the comprehension keeps, in order
Kept(scores) == SelectSeq(scores, IsValid)

\* TRUE iff float(s) raises for a kept element
FilterRaises(scores) ==
    LET kept == Kept(scores) IN \E i \in 1..Len(kept) : ~ToFloat(kept[i]).ok

\* valid_scores = [float(s) for s in scores if ...]
FilterScores(scores) ==
    LET kept == Kept(scores) IN AsSeq([i \in 1..Len(kept) |-> ToFloat(kept[i]).v])

\* insert x into a descending sequence
RECURSIVE InsertDesc(_, _)
InsertDesc(x, sorted) ==
    IF sorted = <<>> THEN <<x>>
    ELSE IF FloatLeq(sorted[1], x) THEN <<x>> \o sorted
    ELSE <<sorted[1]>> \o InsertDesc(x, Tail(sorted))

\* the sort left out
SortDescSkipped(fs) == fs

\* valid_scores.sort(reverse=True)
RECURSIVE SortDesc(_)
SortDesc(fs) ==
    IF fs = <<>> THEN <<>> ELSE InsertDesc(fs[1], SortDesc(Tail(fs)))

Min(a, b) == IF a <= b THEN a ELSE b

\* valid_scores[:top_n]
TopSlice(fs, top_n) == SubSeq(fs, 1, Min(top_n, Len(fs)))

\* sum(top_scores): float additions from the left, starting from 0 (the
\* compensated sum of CPython 3.12 gives the same float for two addends)
RECURSIVE FloatSum(_)
FloatSum(fs) ==
    IF fs = <<>> THEN ZeroBits
    ELSE FloatAdd(FloatSum(SubSeq(fs, 1, Len(fs) - 1)), fs[Len(fs)])

\* sum(top_scores) / len(top_scores)
Average(fs) == FloatDivInt(FloatSum(fs), Len(fs))

\* rounding up instead of to the nearest
RoundHalfUpCeil(avg) == IntPart(avg) + 1

\* int(round(Decimal(avg), 0)) under ROUND_HALF_UP: Decimal(avg) is the exact
\* value of the float
RoundHalfUp(avg) == IntPart(avg) + HalfBit(avg)

calculate_final_score(scores, top_n) ==
    IF scores = <<>> THEN Returned(0)
    ELSE IF FilterRaises(scores) THEN Raised("ValueError")
    ELSE LET valid == FilterScores(scores)
         IN  IF valid = <<>> THEN Returned(0)
             ELSE Returned(RoundHalfUp(Average(TopSlice(SortDesc(valid), top_n))))

\* ------------------------------------------------------------------ inputs
ScoreFloats == {FloatLit(1, 10), FloatLit(29, 10)}
ScoreStrings == {<<51>>, <<178>>, <<49, 46, 53>>}
ScoreElems ==
    {PyInt(n) : n \in 0..MaxScore} \cup {PyFloat(f) : f \in ScoreFloats}
      \cup {PyStr(cs) : cs \in ScoreStrings} \cup {PyNone}

SeqsUpTo(S, n) == UNION {[1..k -> S] : k \in 0..n}
ScoreLists == SeqsUpTo(ScoreElems, MaxLen)

\* ------------------------------------------------------- the batch script
\* str(raw_scores): the repr of a list of ints, strs and None
ReprOf(s) ==
    CASE s.t = "int"  -> DecimalStr(s.v[1])
      [] s.t = "str"  -> <<39>> \o s.v \o <<39>>
      [] s.t = "none" -> <<78, 111, 110, 101>>

RECURSIVE JoinRepr(_)
JoinRepr(l) ==
    IF l = <<>> THEN <<>>
    ELSE IF Len(l) = 1 THEN ReprOf(l[1])
    ELSE ReprOf(l[1]) \o <<44, 32>> \o JoinRepr(Tail(l))

ListRepr(l) == <<91>> \o JoinRepr(l) \o <<93>>

\* the default of data.get("seat_number", ...)
UnknownSeat == PyStr(<<26410, 30693>>)

\* int(x), as astype(int) applies it to each cell of the seat column
IntParses(x) ==
    \/ x.t = "int"
    \/ x.t = "str" /\ x.v # <<>> /\ \A k \in 1..Len(x.v) : x.v[k] \in DecimalChars
IntOf(x) == IF x.t = "int" THEN x.v[1] ELSE DecimalValue(x.v)

\* a < b on strs, by code points
StrLess(a, b) ==
    \/ Len(a) < Len(b) /\ SubSeq(b, 1, Len(a)) = a
    \/ \E k \in 1..Min(Len(a), Len(b)) :
          a[k] < b[k] /\ SubSeq(a, 1, k - 1) = SubSeq(b, 1, k - 1)

Max(a, b) == IF a >= b THEN a ELSE b
PermsOf(n) == {p \in [1..n -> 1..n] : \A x, y \in 1..n : x # y => p[x] # p[y]}
PermTable == [n \in 0..Max(MaxLen, MaxFiles) |-> PermsOf(n)]
Perms(n) == PermTable[n]
Reorder(rows, p) == AsSeq([k \in 1..Len(rows) |-> rows[p[k]]])

\* the orders sort_values may leave the rows in (its quicksort is not stable)
SortedByInt(rows) ==
    {Reorder(rows, p) : p \in
        {q \in Perms(Len(rows)) : \A x, y \in 1..Len(rows) :
            x < y => IntOf(rows[q[x]].seat) <= IntOf(rows[q[y]].seat)}}
SortedByStr(rows) ==
    {Reorder(rows, p) : p \in
        {q \in Perms(Len(rows)) : \A x, y \in 1..Len(rows) :
            x < y => ~StrLess(rows[q[y]].seat.v, rows[q[x]].seat.v)}}

\* the row showing the list as calculate_final_score filtered it
RowOfFiltered(f, data, final) ==
    [name  |-> f,
     seat  |-> IF data.has_seat THEN data.seat ELSE UnknownSeat,
     final |-> final,
     shown |-> ListRepr(SelectSeq(data.scores, IsValid))]

\* the row appended for file f whose extraction returned the dict data
RowOf(f, data, final) ==
    [name  |-> f,
     seat  |-> IF data.has_seat THEN data.seat ELSE UnknownSeat,
     final |-> final,
     shown |-> ListRepr(IF data.has_scores THEN data.scores ELSE <<>>)]

\* what happens to one uploaded file: Image.open fails, the extraction
\* raises inside its try, or the reply parses to a JSON list or to a dict
SeatValues ==
    {PyStr(<<49>>), PyStr(<<50>>), PyStr(<<49, 48>>), PyStr(<<78, 47, 65>>), PyInt(5)}
BatchScoreLists ==
    {<<>>, <<PyInt(2), PyStr(<<51>>), PyStr(<<97>>)>>, <<PyStr(<<178>>)>>}
NoData == [has_seat |-> FALSE, seat |-> PyNone, has_scores |-> FALSE, scores |-> <<>>]
Dict(st, l) == [has_seat |-> TRUE, seat |-> st, has_scores |-> TRUE, scores |-> l]
Dicts ==
    {Dict(st, <<PyInt(2), PyStr(<<51>>), PyStr(<<97>>)>>) : st \in SeatValues}
      \cup {Dict(PyStr(<<49>>), l) : l \in BatchScoreLists}
      \cup {[NoData EXCEPT !.has_scores = TRUE, !.scores = <<>>],
            [NoData EXCEPT !.has_seat = TRUE, !.seat = PyStr(<<50>>)]}
Reply(kind, data) == [kind |-> kind, data |-> data]

\* ------------------------------------------------------------------- state
VARIABLES
    scores, top_n,          \* the arguments of a call of calculate_final_score
    cpc,                    \* the position in that call
    valid_scores, top_scores, avg,
    ret                     \* its outcome

VARIABLES
    uploaded,               \* the number of uploaded files, named 1..uploaded
    threshold_count,        \* the sidebar's number input
    pc,                     \* "loop", "display", "done" or "crashed"
    i,                      \* the file the loop is at
    replies,                \* what came back for each file handled so far
    results,                \* the rows appended
    reported,               \* the files an st.error was shown for
    df,                     \* the rows displayed and exported
    error                   \* the exception that ended the script, if any

cvars == <<scores, top_n, cpc, valid_scores, top_scores, avg, ret>>
bvars == <<uploaded, threshold_count, pc, i, replies, results, reported, df, error>>
vars == <<cvars, bvars>>

CIdle ==
    /\ scores = <<>> /\ top_n = 1 /\ cpc = "idle"
    /\ valid_scores = <<>> /\ top_scores = <<>> /\ avg = ZeroBits /\ ret = NoResult

BIdle ==
    /\ uploaded = 0 /\ threshold_count = 1 /\ pc = "idle" /\ i = 1
    /\ replies = <<>> /\ results = <<>> /\ reported = <<>> /\ df = <<>>
    /\ error = "none"

CInit ==
    /\ BIdle
    /\ scores \in ScoreLists
    /\ top_n \in 1..MaxTopN
    /\ cpc = "call"
    /\ valid_scores = <<>>
    /\ top_scores = <<>>
    /\ avg = ZeroBits
    /\ ret = NoResult

\* lines 62-63
ReturnEmpty ==
    /\ cpc = "call" /\ scores = <<>>
    /\ ret' = Returned(0) /\ cpc' = "done"
    /\ UNCHANGED <<scores, top_n, valid_scores, top_scores, avg>> /\ UNCHANGED bvars

\* line 65, float() raising
FilterRaise ==
    /\ cpc = "call" /\ scores # <<>> /\ FilterRaises(scores)
    /\ ret' = Raised("ValueError") /\ cpc' = "done"
    /\ UNCHANGED <<scores, top_n, valid_scores, top_scores, avg>> /\ UNCHANGED bvars

\* line 65
Filter ==
    /\ cpc = "call" /\ scores # <<>> /\ ~FilterRaises(scores)
    /\ valid_scores' = FilterScores(scores)
    /\ cpc' = "filtered"
    /\ UNCHANGED <<scores, top_n, top_scores, avg, ret>> /\ UNCHANGED bvars

\* lines 66-67
ReturnNoValid ==
    /\ cpc = "filtered" /\ valid_scores = <<>>
    /\ ret' = Returned(0) /\ cpc' = "done"
    /\ UNCHANGED <<scores, top_n, valid_scores, top_scores, avg>> /\ UNCHANGED bvars

\* lines 70-71
Select ==
    /\ cpc = "filtered" /\ valid_scores # <<>>
    /\ valid_scores' = SortDesc(valid_scores)
    /\ top_scores' = TopSlice(SortDesc(valid_scores), top_n)
    /\ cpc' = "selected"
    /\ UNCHANGED <<scores, top_n, avg, ret>> /\ UNCHANGED bvars

\* line 74
Mean ==
    /\ cpc = "selected"
    /\ avg' = Average(top_scores)
    /\ cpc' = "averaged"
    /\ UNCHANGED <<scores, top_n, valid_scores, top_scores, ret>> /\ UNCHANGED bvars

\* lines 77-82
Round ==
    /\ cpc = "averaged"
    /\ ret' = Returned(RoundHalfUp(avg)) /\ cpc' = "done"
    /\ UNCHANGED <<scores, top_n, valid_scores, top_scores, avg>> /\ UNCHANGED bvars

NextCalc ==
    \/ ReturnEmpty \/ FilterRaise \/ Filter \/ ReturnNoValid
    \/ Select \/ Mean \/ Round

SpecCalc == CInit /\ [][NextCalc]_vars

\* the state after the button is pressed with files and an API key (line 87-90)
Init ==
    /\ CIdle
    /\ uploaded \in 1..MaxFiles
    /\ threshold_count \in 1..MaxTopN
    /\ pc = "loop" /\ i = 1
    /\ replies = <<>> /\ results = <<>> /\ reported = <<>> /\ df = <<>>
    /\ error = "none"

Crash(e, reply) ==
    /\ pc' = "crashed" /\ error' = e
    /\ replies' = Append(replies, reply)
    /\ UNCHANGED <<uploaded, threshold_count, i, results, reported, df>>

\* line 97: Image.open raises, outside any try
FileImageFails ==
    /\ pc = "loop" /\ i <= uploaded
    /\ Crash("UnidentifiedImageError", Reply("image", NoData))
    /\ UNCHANGED cvars

\* lines 100-104: the extraction fails inside its try (lines 53-59)
FileExtractionError ==
    /\ pc = "loop" /\ i <= uploaded
    /\ replies' = Append(replies, Reply("error", NoData))
    /\ reported' = Append(reported, i)
    /\ i' = i + 1
    /\ UNCHANGED <<uploaded, threshold_count, pc, results, df, error>>
    /\ UNCHANGED cvars

\* lines 100-107: json.loads returns a list, which has no get()
FileNotDict ==
    /\ pc = "loop" /\ i <= uploaded
    /\ Crash("AttributeError", Reply("list", NoData))
    /\ UNCHANGED cvars

\* lines 107-109: calculate_final_score raises
FileScoreRaises ==
    /\ pc = "loop" /\ i <= uploaded
    /\ \E d \in Dicts :
          LET r == calculate_final_score(d.scores, threshold_count)
          IN  /\ r.kind # "return"
              /\ Crash(r.kind, Reply("dict", d))
    /\ UNCHANGED cvars

\* lines 107-118
FileOk ==
    /\ pc = "loop" /\ i <= uploaded
    /\ \E d \in Dicts :
          LET r == calculate_final_score(d.scores, threshold_count)
          IN  /\ r.kind = "return"
              /\ replies' = Append(replies, Reply("dict", d))
              /\ results' = Append(results, RowOf(i, d, r.v))
    /\ i' = i + 1
    /\ UNCHANGED <<uploaded, threshold_count, pc, reported, df, error>>
    /\ UNCHANGED cvars

\* line 120
LoopEnd ==
    /\ pc = "loop" /\ i > uploaded
    /\ pc' = "display"
    /\ UNCHANGED <<uploaded, threshold_count, i, replies, results, reported, df, error>>
    /\ UNCHANGED cvars

\* line 123, no row
DisplayNothing ==
    /\ pc = "display" /\ results = <<>>
    /\ pc' = "done"
    /\ UNCHANGED <<uploaded, threshold_count, i, replies, results, reported, df, error>>
    /\ UNCHANGED cvars

\* lines 126-128
DisplayByInt ==
    /\ pc = "display" /\ results # <<>>
    /\ \A k \in 1..Len(results) : IntParses(results[k].seat)
    /\ df' \in SortedByInt(results)
    /\ pc' = "done"
    /\ UNCHANGED <<uploaded, threshold_count, i, replies, results, reported, error>>
    /\ UNCHANGED cvars

\* lines 129-130, every seat a str
DisplayByStr ==
    /\ pc = "display" /\ results # <<>>
    /\ \E k \in 1..Len(results) : ~IntParses(results[k].seat)
    /\ \A k \in 1..Len(results) : results[k].seat.t = "str"
    /\ df' \in SortedByStr(results)
    /\ pc' = "done"
    /\ UNCHANGED <<uploaded, threshold_count, i, replies, results, reported, error>>
    /\ UNCHANGED cvars

\* lines 129-130, a str compared with an int
DisplayRaises ==
    /\ pc = "display" /\ results # <<>>
    /\ \E k \in 1..Len(results) : ~IntParses(results[k].seat)
    /\ \E k \in 1..Len(results) : results[k].seat.t # "str"
    /\ pc' = "crashed" /\ error' = "TypeError"
    /\ UNCHANGED <<uploaded, threshold_count, i, replies, results, reported, df>>
    /\ UNCHANGED cvars

Next ==
    \/ FileImageFails \/ FileExtractionError \/ FileNotDict
    \/ FileScoreRaises \/ FileOk \/ LoopEnd
    \/ DisplayNothing \/ DisplayByInt \/ DisplayByStr \/ DisplayRaises

Spec == Init /\ [][Next]_vars

\* ------------------------------------------------------ exact arithmetic
\* what the properties below compare the program's floats with

RECURSIVE ExactSum(_)
ExactSum(fs) ==
    IF fs = <<>> THEN ZeroBits ELSE AddExact(ExactSum(Tail(fs)), fs[1])

HalfOf(k) == DivExact(IntToBits(k), 2).q

\* the integer nearest to the exact mean of fs, a mean of X.5 going to X+1:
\* floor((sum + k/2) / k)
NearestHalfAway(fs) ==
    IntPart(DivExact(AddExact(ExactSum(fs), HalfOf(Len(fs))), Len(fs)).q)

\* TRUE iff the exact mean of fs is an integer plus one half
MeanIsHalf(fs) ==
    LET d == DivExact(AddExact(ExactSum(fs), ExactSum(fs)), Len(fs))
    IN  d.r = 0 /\ d.q[1] % 2 = 1 /\ \A k \in 2..NumLimbs : d.q[k] = 0

\* a string of digits, and the integer it stands for
AllDigits(cs) == cs # <<>> /\ \A k \in 1..Len(cs) : cs[k] \in DigitChars
DigitOf(c) == IF c \in DecimalChars THEN c - 48
              ELSE IF c = 185 THEN 1 ELSE IF c = 178 THEN 2 ELSE 3
RECURSIVE DigitsValue(_)
DigitsValue(cs) ==
    IF cs = <<>> THEN 0
    ELSE 10 * DigitsValue(SubSeq(cs, 1, Len(cs) - 1)) + DigitOf(cs[Len(cs)])

\* an element the filter is to discard, and one it is to retain
NonDigitOrNull(e) == e.t = "none" \/ (e.t = "str" /\ ~AllDigits(e.v))
Retained(e) == e.t \in {"int", "float"} \/ (e.t = "str" /\ AllDigits(e.v))
ValueOf(e) ==
    CASE e.t = "int"   -> IntToBits(e.v[1])
      [] e.t = "float" -> e.v
      [] e.t = "str"   -> IntToBits(DigitsValue(e.v))

RetainedValues(l) ==
    LET r == SelectSeq(l, Retained) IN AsSeq([k \in 1..Len(r) |-> ValueOf(r[k])])

RECURSIVE Pick(_, _)
Pick(fs, idx) ==
    IF fs = <<>> THEN <<>>
    ELSE (IF Len(fs) \in idx THEN Pick(SubSeq(fs, 1, Len(fs) - 1), idx) \o <<fs[Len(fs)]>>
          ELSE Pick(SubSeq(fs, 1, Len(fs) - 1), idx))

\* the m largest of fs
Largest(fs, m) ==
    Pick(fs, CHOOSE idx \in SUBSET (1..Len(fs)) :
                /\ Cardinality(idx) = m
                /\ \A x \in idx, y \in (1..Len(fs)) \ idx : FloatLeq(fs[y], fs[x]))

IsIntValued(f) == \A k \in 2..NumLimbs : f[k] = 0

\* ------------------------------------------------------------- properties

\* C1: with at least one valid element, calculate_final_score returns the
\* rounded arithmetic mean of exactly the min(top_n, count) largest valid
\* values, a digit string counting as its integer value.
C1_TopNMean ==
    (cpc = "done" /\ RetainedValues(scores) # <<>>)
      => ret = Returned(NearestHalfAway(
                   Largest(RetainedValues(scores),
                           Min(top_n, Len(RetainedValues(scores))))))

\* C2: the result is the mean of the selected values rounded half away from
\* zero: X+1 when the mean is exactly X.5, the nearest integer otherwise.
C2_RoundHalfAway ==
    (cpc = "done" /\ top_scores # <<>>)
      => ret = Returned(NearestHalfAway(top_scores))

\* C3: calculate_final_score returns 0 when the list is empty and when every
\* element of it is a non-digit string or None.
C3_DegenerateZero ==
    (cpc = "done" /\ \A k \in 1..Len(scores) : NonDigitOrNull(scores[k]))
      => ret = Returned(0)

C3_Witness ==
    /\ cpc = "done" /\ ret = Returned(0) /\ Len(scores) >= 2
    /\ \A k \in 1..Len(scores) : NonDigitOrNull(scores[k])
    /\ \E k \in 1..Len(scores) : scores[k].t = "none"
    /\ \E k \in 1..Len(scores) : scores[k].t = "str"

\* C4: non-digit strings and None count neither in the sum nor in the count:
\* the outcome is that of the list with them removed, and valid_scores holds
\* exactly the numbers and the all-digit strings of the list.
C4_FilterIgnoresInvalid ==
    /\ cpc = "done" =>
          ret = calculate_final_score(
                    SelectSeq(scores, LAMBDA e : ~NonDigitOrNull(e)), top_n)
    /\ cpc \in {"filtered", "selected", "averaged"} =>
          Len(valid_scores) = Len(SelectSeq(scores, Retained))

C4_Witness ==
    /\ cpc = "done" /\ ret.kind = "return" /\ ret.v > 0
    /\ \E k \in 1..Len(scores) : NonDigitOrNull(scores[k])
    /\ \E k \in 1..Len(scores) : scores[k].t = "float"
    /\ \E k \in 1..Len(scores) : scores[k].t = "str" /\ AllDigits(scores[k].v)

\* C5: the outcome of calculate_final_score is the same for every
\* permutation of its input list.
C5_PermutationInvariant ==
    cpc = "done" =>
        \A p \in Perms(Len(scores)) :
            calculate_final_score(Reorder(scores, p), top_n) = ret

C5_Witness ==
    /\ cpc = "done" /\ ret.kind = "return"
    /\ Len(valid_scores) > top_n
    /\ \E x, y \in 1..Len(scores) :
          /\ x < y /\ Retained(scores[x]) /\ Retained(scores[y])
          /\ ValueOf(scores[x]) # ValueOf(scores[y])
          /\ FloatLeq(ValueOf(scores[x]), ValueOf(scores[y]))

\* C6: calculate_final_score raises no error, whatever numbers, strings and
\* None the list holds.
C6_NeverRaises == ret.kind \in {"none", "return"}

\* C7: a failure while handling one file is reported for that file only and
\* the loop goes on: once the loop is left every uploaded file has been
\* handled, and there is one row for each file whose extraction succeeded
\* and none for any other.
C7_BatchContinues ==
    pc \in {"display", "done", "crashed"} =>
        /\ Len(replies) = uploaded
        /\ \A f \in 1..uploaded :
              Cardinality({k \in 1..Len(results) : results[k].name = f})
                = (IF replies[f].kind = "dict" THEN 1 ELSE 0)

\* C8: the displayed rows are in ascending order of the seat numbers as
\* integers when all of them parse, in lexicographic order of the seat
\* numbers as strings otherwise, and no error is raised in either case.
C8_SortAllOrNothing ==
    /\ error # "TypeError"
    /\ (pc = "done" /\ results # <<>>) =>
          IF \A k \in 1..Len(results) : IntParses(results[k].seat)
          THEN df \in SortedByInt(results)
          ELSE df \in SortedByStr(results)

\* C9: each row shows the score list as calculate_final_score filtered it:
\* no element the function discarded appears in it.
C9_ShowsFilteredList ==
    \A k \in 1..Len(results) :
        results[k].shown =
            ListRepr(SelectSeq(replies[results[k].name].data.scores, Retained))

\* C9 as amended: each row shows the raw valid_scores list of the reply,
\* the empty list when the reply has none, before any filtering.
C9_ShowsRawList ==
    \A k \in 1..Len(results) :
        /\ results[k].name \in 1..Len(replies)
        /\ results[k].shown = ListRepr(replies[results[k].name].data.scores)

C9_Witness ==
    \E k \in 1..Len(results) :
        /\ results[k].final > 0
        /\ \E e \in 1..Len(replies[results[k].name].data.scores) :
              NonDigitOrNull(replies[results[k].name].data.scores[e])

\* C10: a returned result lies between the smallest and the largest valid
\* value of the list.
C10_WithinRange ==
    (cpc = "done" /\ valid_scores # <<>>) =>
        /\ FloatLeq(valid_scores[Len(valid_scores)], IntToBits(ret.v))
        /\ FloatLeq(IntToBits(ret.v), valid_scores[1])

\* C10 as amended: the same when every valid value is an integer.
C10_WithinRangeOfIntegers ==
    (cpc = "done" /\ valid_scores # <<>>
       /\ \A k \in 1..Len(valid_scores) : IsIntValued(valid_scores[k])) =>
        /\ \A k \in 1..Len(valid_scores) :
              /\ FloatLeq(valid_scores[Len(valid_scores)], valid_scores[k])
              /\ FloatLeq(valid_scores[k], valid_scores[1])
        /\ FloatLeq(valid_scores[Len(valid_scores)], IntToBits(ret.v))
        /\ FloatLeq(IntToBits(ret.v), valid_scores[1])

C10_Witness ==
    /\ cpc = "done" /\ Len(valid_scores) >= 2
    /\ \A k \in 1..Len(valid_scores) : IsIntValued(valid_scores[k])
    /\ IntPart(valid_scores[Len(valid_scores)]) < ret.v
    /\ ret.v < IntPart(valid_scores[1])

====
